---- MODULE Spec2Model ----
(***************************************************************************)
(* kernel_guard: RAII guards that create a critical section with local     *)
(* IRQs disabled (src/kernel_guard/src/lib.rs).                             *)
(*                                                                         *)
(* The state is, per execution context, the interrupt-enable flag, the     *)
(* guards that are live (in order of construction, each with the state it  *)
(* stores) and the State values a client holds from direct calls of        *)
(* BaseGuard::acquire.  The build configuration (target_os, doc, the       *)
(* `preempt` feature) is chosen once.  `last` records the operation that produced    *)
(* the current state and the calls it made, so that call order and         *)
(* arguments can be stated.                                                *)
(***************************************************************************)
EXTENDS Integers, Sequences, FiniteSets

VARIABLES
    target_os_none,   \* cfg(target_os = "none"): the bare-metal build
    cfg_doc,          \* cfg(doc): the documentation build
    preempt,          \* cfg(feature = "preempt")
    irq_enabled,      \* per context: local IRQs enabled
    irq_init,         \* per context: irq_enabled in the initial state
    preempt_enabled,  \* per context: kernel preemption enabled
    guards,           \* per context: live guards constructed on it, oldest first
    held,             \* per context: States returned by direct IrqSave::acquire calls, not yet released
    lifo,             \* per context: so far only constructors ran on it, and destructions, on it, of the guard it constructed last
    last              \* the last operation: its name and context, the flag before it, the calls it made, the State returned or released

vars == <<target_os_none, cfg_doc, preempt, irq_enabled, irq_init, preempt_enabled,
          guards, held, lifo, last>>

\* Bound of the model: the number of acquisitions (live guards and held
\* States, over all contexts) that are outstanding at a time.
MaxLive == 2

\* Bound of the model: the largest word a client passes to release (State
\* is usize).
MaxWord == 2

\* The execution contexts (CPUs), each with its own flags.
Contexts == {"cpu0", "cpu1"}

\* The machine word local_irq_save_and_disable returns.
IrqOff == 0
IrqOn == 1
StateWords == 0..MaxWord

----------------------------------------------------------------------------
\* arch: the platform primitives (mod arch, not in lib.rs).

\* Returns the prior interrupt-enable status as a word and disables interrupts.
local_irq_save_and_disable(f) ==
    [ret |-> IF f THEN IrqOn ELSE IrqOff, irq |-> FALSE]

\* Restores the interrupt-enable status a saved word encodes.
local_irq_restore(flags) ==
    [irq |-> flags # IrqOff]

----------------------------------------------------------------------------
\* impl BaseGuard for NoOp: State = (), both functions are empty.
\* f is the context's interrupt-enable flag; irq is the flag afterwards.

\* Mutant: NoOp::acquire with the body of IrqSave::acquire's effect.
NoOp_acquire_disables(f) ==
    [irq |-> FALSE, calls |-> <<>>, st |-> <<>>]

NoOp_acquire(f) ==
    [irq |-> f, calls |-> <<>>, st |-> <<>>]

NoOp_release(f) ==
    [irq |-> f, calls |-> <<>>, st |-> <<>>]

\* NoOp::new returns Self; NoOp has no field.
NoOp_new(f) ==
    [guard |-> [kind |-> "NoOp"], irq |-> f, calls |-> <<>>, st |-> <<>>]

\* Drop for NoOp: empty body.
NoOp_drop(f, g) ==
    [irq |-> f, calls |-> <<>>, st |-> <<>>]

----------------------------------------------------------------------------
\* mod imp (cfg(any(target_os = "none", doc))): impl BaseGuard for IrqSave, State = usize.

\* Mutant: acquire calls the preemption hook without the feature gate.
IrqSave_acquire_hook(f) ==
    [state |-> IF f THEN IrqOn ELSE IrqOff, irq |-> FALSE,
     calls |-> <<"disable_preempt", "local_irq_save_and_disable">>,
     st |-> <<IF f THEN IrqOn ELSE IrqOff>>]

\* Mutant: acquire reads the status and leaves interrupts as they are.
IrqSave_acquire_keeps(f) ==
    [state |-> IF f THEN IrqOn ELSE IrqOff, irq |-> f,
     calls |-> <<"local_irq_save_and_disable">>, st |-> <<IF f THEN IrqOn ELSE IrqOff>>]

IrqSave_acquire(f) ==
    LET r == local_irq_save_and_disable(f)
    IN  [state |-> r.ret, irq |-> r.irq,
         calls |-> <<"local_irq_save_and_disable">>, st |-> <<r.ret>>]

\* Mutant: release re-enables interrupts whatever the saved state.
IrqSave_release_enables(f, state) ==
    [irq |-> TRUE, calls |-> <<"local_irq_restore">>, st |-> <<state>>]

\* Mutant: release does not restore.
IrqSave_release_nothing(f, state) ==
    [irq |-> f, calls |-> <<>>, st |-> <<state>>]

IrqSave_release(f, state) ==
    LET r == local_irq_restore(state)
    IN  [irq |-> r.irq, calls |-> <<"local_irq_restore">>, st |-> <<state>>]

\* Mutant: new calls the primitive itself instead of Self::acquire.
IrqSave_new_direct(f) ==
    LET r == local_irq_save_and_disable(f)
    IN  [guard |-> [kind |-> "IrqSave", state |-> r.ret], irq |-> r.irq,
         calls |-> <<"local_irq_save_and_disable">>, st |-> <<r.ret>>]

\* Mutant: new stores "was enabled" whatever acquire returned.
IrqSave_new_on(f) ==
    LET a == IrqSave_acquire(f)
    IN  [guard |-> [kind |-> "IrqSave", state |-> IrqOn], irq |-> a.irq,
         calls |-> <<"IrqSave::acquire">> \o a.calls, st |-> a.st]

\* Mutant: new stores the status read after acquire has disabled interrupts.
IrqSave_new_after(f) ==
    LET a == IrqSave_acquire(f)
    IN  [guard |-> [kind |-> "IrqSave", state |-> IF a.irq THEN IrqOn ELSE IrqOff],
         irq |-> a.irq,
         calls |-> <<"IrqSave::acquire">> \o a.calls, st |-> a.st]

\* IrqSave::new: Self(Self::acquire())
IrqSave_new(f) ==
    LET a == IrqSave_acquire(f)
    IN  [guard |-> [kind |-> "IrqSave", state |-> a.state], irq |-> a.irq,
         calls |-> <<"IrqSave::acquire">> \o a.calls, st |-> a.st]

\* impl Default for IrqSave: Self::new()
IrqSave_default(f) ==
    LET n == IrqSave_new(f)
    IN  [guard |-> n.guard, irq |-> n.irq,
         calls |-> <<"IrqSave::new">> \o n.calls, st |-> n.st]

\* Mutant: drop releases twice.
IrqSave_drop_twice(f, g) ==
    LET r == IrqSave_release(f, g.state)
    IN  [irq |-> r.irq,
         calls |-> <<"IrqSave::release">> \o r.calls \o <<"IrqSave::release">> \o r.calls,
         st |-> r.st]

\* Mutant: drop with an empty body.
IrqSave_drop_empty(f, g) ==
    [irq |-> f, calls |-> <<>>, st |-> <<>>]

\* Mutant: drop releases the word 0 instead of self.0.
IrqSave_drop_zero(f, g) ==
    LET r == IrqSave_release(f, IrqOff)
    IN  [irq |-> r.irq, calls |-> <<"IrqSave::release">> \o r.calls, st |-> r.st]

\* Drop for IrqSave: Self::release(self.0)
IrqSave_drop(f, g) ==
    LET r == IrqSave_release(f, g.state)
    IN  [irq |-> r.irq, calls |-> <<"IrqSave::release">> \o r.calls, st |-> r.st]

----------------------------------------------------------------------------
\* Mutant: the alias branch of cfg_if is never taken.
IrqSaveIsNoOp_never == FALSE

\* cfg_if: IrqSave is the struct of mod imp on any(target_os = "none", doc),
\* and an alias of NoOp otherwise.
IrqSaveIsNoOp == ~(target_os_none \/ cfg_doc)

\* Mutant: every guard is destroyed as a NoOp.
Drop_skips(f, g) ==
    NoOp_drop(f, g)

\* The destructor of a guard value, chosen by its type.
Drop(f, g) ==
    IF g.kind = "IrqSave" THEN IrqSave_drop(f, g) ELSE NoOp_drop(f, g)

RemoveAt(s, i) == SubSeq(s, 1, i - 1) \o SubSeq(s, i + 1, Len(s))

\* s without its first element equal to x (s itself when there is none).
RemoveOne(s, x) ==
    IF \E i \in 1..Len(s) : s[i] = x
    THEN RemoveAt(s, CHOOSE i \in 1..Len(s) : s[i] = x /\ \A j \in 1..(i - 1) : s[j] # x)
    ELSE s

Occurs(s, x) == \E i \in 1..Len(s) : s[i] = x

\* The number of outstanding acquisitions.
Live(c) == Len(guards[c]) + Len(held[c])
TotalLive == Cardinality(UNION {{c} \X (1..Live(c)) : c \in Contexts})

Config == <<target_os_none, cfg_doc, preempt, irq_init, preempt_enabled>>

Init ==
    /\ target_os_none \in BOOLEAN
    /\ cfg_doc \in BOOLEAN
    /\ preempt \in BOOLEAN
    /\ irq_enabled \in [Contexts -> BOOLEAN]
    /\ irq_init = irq_enabled
    /\ preempt_enabled = [c \in Contexts |-> TRUE]
    /\ guards = [c \in Contexts |-> <<>>]
    /\ held = [c \in Contexts |-> <<>>]
    /\ lifo = [c \in Contexts |-> TRUE]
    /\ last = [op |-> "init", ctx |-> "cpu0", before |-> irq_enabled["cpu0"], calls |-> <<>>, st |-> <<>>]

\* Mutant: one interrupt-enable flag for all contexts.
Construct_shared(c, name, r) ==
    /\ TotalLive < MaxLive
    /\ irq_enabled' = [d \in Contexts |-> r.irq]
    /\ guards' = [guards EXCEPT ![c] = Append(@, r.guard)]
    /\ last' = [op |-> name, ctx |-> c, before |-> irq_enabled[c], calls |-> r.calls, st |-> r.st]
    /\ UNCHANGED <<target_os_none, cfg_doc, preempt, irq_init, preempt_enabled, held, lifo>>

\* A constructor call on context c whose result is r.
Construct(c, name, r) ==
    /\ TotalLive < MaxLive
    /\ irq_enabled' = [irq_enabled EXCEPT ![c] = r.irq]
    /\ guards' = [guards EXCEPT ![c] = Append(@, r.guard)]
    /\ last' = [op |-> name, ctx |-> c, before |-> irq_enabled[c], calls |-> r.calls, st |-> r.st]
    /\ UNCHANGED <<Config, held, lifo>>

\* let g = NoOp::new();
NoOpNew(c) ==
    Construct(c, "NoOp::new", NoOp_new(irq_enabled[c]))

\* let g = IrqSave::new();
IrqSaveNew(c) ==
    Construct(c, "IrqSave::new",
              IF IrqSaveIsNoOp THEN NoOp_new(irq_enabled[c])
                               ELSE IrqSave_new(irq_enabled[c]))

\* let g = IrqSave::default();  (mod imp only: NoOp has no Default)
IrqSaveDefault(c) ==
    /\ ~IrqSaveIsNoOp
    /\ Construct(c, "IrqSave::default", IrqSave_default(irq_enabled[c]))

\* The guard that context o constructed last.
IsNewest(o, i) == i = Len(guards[o])

\* Mutant: destroying a guard destroys the guards constructed after it too.
Destroy_unwinds(c, o, i) ==
    LET g == guards[o][i]
        r == IF g.kind = "IrqSave" THEN IrqSave_drop(irq_enabled[c], g)
                                   ELSE NoOp_drop(irq_enabled[c], g)
    IN  /\ irq_enabled' = [irq_enabled EXCEPT ![c] = r.irq]
        /\ guards' = [guards EXCEPT ![o] = SubSeq(@, 1, i - 1)]
        /\ last' = [op |-> "drop", ctx |-> c, before |-> irq_enabled[c], calls |-> r.calls, st |-> r.st]
        /\ lifo' = [d \in Contexts |->
                       IF d \in {c, o} /\ ~(c = o /\ IsNewest(o, i)) THEN FALSE ELSE lifo[d]]
        /\ UNCHANGED <<target_os_none, cfg_doc, preempt, irq_init, preempt_enabled, held>>

\* Context c runs the destructor of guard i of those context o
\* constructed.  A guard is a value that can be moved: the one destroyed
\* (by a scope ending or by drop()) need not be the one constructed last,
\* and it is destroyed on the context that holds it then.
Destroy(c, o, i) ==
    LET g == guards[o][i]
        r == Drop(irq_enabled[c], g)
    IN  /\ irq_enabled' = [irq_enabled EXCEPT ![c] = r.irq]
        /\ guards' = [guards EXCEPT ![o] = RemoveAt(@, i)]
        /\ last' = [op |-> "drop", ctx |-> c, before |-> irq_enabled[c], calls |-> r.calls, st |-> r.st]
        /\ lifo' = [d \in Contexts |->
                       IF d \in {c, o} /\ ~(c = o /\ IsNewest(o, i)) THEN FALSE ELSE lifo[d]]
        /\ UNCHANGED <<Config, held>>

\* A guard of context c is destroyed on c.
DropGuard(c, i) ==
    /\ i \in 1..Len(guards[c])
    /\ Destroy(c, c, i)

\* A guard that context o constructed is destroyed on another context c.
DropMoved(c, o, i) ==
    /\ o # c
    /\ i \in 1..Len(guards[o])
    /\ Destroy(c, o, i)

\* A direct call of a BaseGuard function on context c whose result is r.
Direct(c, name, r) ==
    /\ irq_enabled' = [irq_enabled EXCEPT ![c] = r.irq]
    /\ last' = [op |-> name, ctx |-> c, before |-> irq_enabled[c], calls |-> r.calls, st |-> r.st]
    /\ lifo' = [lifo EXCEPT ![c] = FALSE]
    /\ UNCHANGED <<Config, guards>>

\* <NoOp as BaseGuard>::acquire()
NoOpAcquire(c) ==
    /\ Direct(c, "NoOp::acquire", NoOp_acquire(irq_enabled[c]))
    /\ UNCHANGED held

\* <NoOp as BaseGuard>::release(())
NoOpRelease(c) ==
    /\ Direct(c, "NoOp::release", NoOp_release(irq_enabled[c]))
    /\ UNCHANGED held

\* let s = <IrqSave as BaseGuard>::acquire();
IrqSaveAcquire(c) ==
    IF IrqSaveIsNoOp
    THEN /\ Direct(c, "IrqSave::acquire", NoOp_acquire(irq_enabled[c]))
         /\ UNCHANGED held
    ELSE LET r == IrqSave_acquire(irq_enabled[c])
         IN  /\ TotalLive < MaxLive
             /\ Direct(c, "IrqSave::acquire", r)
             /\ held' = [held EXCEPT ![c] = Append(@, r.state)]

\* <IrqSave as BaseGuard>::release(s): State is usize where mod imp is
\* compiled, so a client can pass any word: one that acquire returned on
\* context o and that is then no longer held, or any other word (held is
\* then as before).  On the other builds State is ().
IrqSaveRelease(c, o, s) ==
    IF IrqSaveIsNoOp
    THEN /\ s = IrqOff /\ o = c
         /\ Direct(c, "IrqSave::release", NoOp_release(irq_enabled[c]))
         /\ UNCHANGED held
    ELSE /\ Direct(c, "IrqSave::release", IrqSave_release(irq_enabled[c], s))
         /\ held' = [held EXCEPT ![o] = RemoveOne(@, s)]

Next ==
    \E c \in Contexts :
        \/ NoOpNew(c)
        \/ IrqSaveNew(c)
        \/ IrqSaveDefault(c)
        \/ \E i \in 1..MaxLive : DropGuard(c, i)
        \/ \E o \in Contexts : \E i \in 1..MaxLive : DropMoved(c, o, i)
        \/ NoOpAcquire(c)
        \/ NoOpRelease(c)
        \/ IrqSaveAcquire(c)
        \/ \E o \in Contexts : \E s \in StateWords : IrqSaveRelease(c, o, s)

Spec == Init /\ [][Next]_vars

\* The client goes on calling the library.  Nothing makes it destroy a
\* guard: a guard that is leaked (mem::forget) or whose owner never ends
\* stays live for ever.
FairSpec == Init /\ [][Next]_vars /\ WF_vars(Next)

----------------------------------------------------------------------------
\* Helpers of the properties.

\* mod imp is compiled: cfg(any(target_os = "none", doc)).
ImpBuild == target_os_none \/ cfg_doc
IsIrqSave(g) == g.kind = "IrqSave"
IrqSaveLive(c) == \E i \in 1..Len(guards[c]) : IsIrqSave(guards[c][i])
Encode(f) == IF f THEN IrqOn ELSE IrqOff
Top(c) == guards[c][Len(guards[c])]
Front(q) == SubSeq(q, 1, Len(q) - 1)
ReleaseCalls == <<"IrqSave::release", "local_irq_restore">>
AcquireCalls == <<"IrqSave::acquire", "local_irq_save_and_disable">>
IrqSaveConstructorOps == {"IrqSave::new", "IrqSave::default"}
ConstructorOps == {"NoOp::new"} \cup IrqSaveConstructorOps
DropOps == {"drop"}
PreemptHooks == {"disable_preempt", "enable_preempt"}

\* The calls of the IrqSave constructor op, where mod imp is compiled.
ConstructorCalls(op) ==
    IF op = "IrqSave::default" THEN <<"IrqSave::new">> \o AcquireCalls ELSE AcquireCalls

\* The step destroys guard i of those context o constructed, and no other.
Destroyed(o, i) ==
    /\ i \in 1..Len(guards[o])
    /\ guards' = [guards EXCEPT ![o] = RemoveAt(@, i)]

\* The number of calls of a in the sequence of calls q.
CallCount(q, a) == Cardinality({i \in 1..Len(q) : q[i] = a})

\* a is called before b in the sequence of calls q.
CalledBefore(q, a, b) ==
    \E i, j \in 1..Len(q) : i < j /\ q[i] = a /\ q[j] = b

----------------------------------------------------------------------------
\* C1: on a context where guards (any mix of NoOp and IrqSave, any number)
\* were constructed and destroyed in strict reverse order, once every guard
\* is destroyed the interrupt-enable flag equals its initial value.
NestedLifoRestores ==
    \A c \in Contexts :
        (lifo[c] /\ guards[c] = <<>>) => irq_enabled[c] = irq_init[c]

\* An IrqSave guard that saved "enabled" was the last to be destroyed and
\* interrupts are enabled again.
NestedLifoRestoresWitness ==
    /\ last.op = "drop" /\ last.calls = ReleaseCalls /\ last.st = <<IrqOn>>
    /\ lifo[last.ctx] /\ guards[last.ctx] = <<>>
    /\ irq_init[last.ctx] /\ irq_enabled[last.ctx]

\* C2: a guard (NoOp or IrqSave) that is destroyed right after its
\* construction leaves the interrupt-enable flag as it was before the
\* construction, enabled or disabled.
RoundTrip ==
    [][\A c \in Contexts :
          ( /\ last.op \in ConstructorOps /\ last.ctx = c
            /\ last'.op \in DropOps /\ last'.ctx = c
            /\ Destroyed(c, Len(guards[c])) )
          => irq_enabled'[c] = last.before]_vars

\* Interrupts were disabled before an IrqSave guard and are still disabled
\* after its destruction.
RoundTripWitness ==
    /\ ImpBuild
    /\ last.op = "drop" /\ last.calls = ReleaseCalls /\ last.st = <<IrqOff>>
    /\ guards[last.ctx] = <<>> /\ lifo[last.ctx]
    /\ ~irq_init[last.ctx] /\ ~irq_enabled[last.ctx]

\* C3 as stated: whenever an IrqSave guard is live on a context, that
\* context's interrupts are disabled.
SuppressedWhileLive ==
    \A c \in Contexts : IrqSaveLive(c) => ~irq_enabled[c]

\* C3 amended: whenever an IrqSave guard is live on a context whose guards
\* have been destroyed in reverse order of construction and on which
\* BaseGuard::acquire and BaseGuard::release were not called directly, that
\* context's interrupts are disabled.
SuppressedWhileLiveLifo ==
    \A c \in Contexts : (lifo[c] /\ IrqSaveLive(c)) => ~irq_enabled[c]

\* An inner guard was destroyed, the outer IrqSave guard is live, and
\* interrupts (enabled at first) are still disabled.
SuppressedWhileLiveWitness ==
    /\ last.op = "drop" /\ lifo[last.ctx]
    /\ Len(guards[last.ctx]) >= 1 /\ IsIrqSave(guards[last.ctx][1])
    /\ irq_init[last.ctx] /\ ~irq_enabled[last.ctx]

\* C4: IrqSave::new stores the interrupt-enable status from just before it
\* and disables interrupts; with guards destroyed in reverse order and
\* interrupts enabled at first, the outer guard A holds "was enabled", a
\* nested guard B holds "was disabled", interrupts are disabled while any
\* is live and enabled once A is destroyed.
StoredStateChain ==
    \A c \in Contexts :
        (lifo[c] /\ irq_init[c]) =>
            /\ \A i \in 1..Len(guards[c]) :
                  IsIrqSave(guards[c][i]) =>
                      guards[c][i].state =
                          (IF \E j \in 1..(i - 1) : IsIrqSave(guards[c][j])
                           THEN IrqOff ELSE IrqOn)
            /\ irq_enabled[c] = ~IrqSaveLive(c)

StoredState ==
    /\ []StoredStateChain
    /\ [][\A c \in Contexts :
            (last'.op \in IrqSaveConstructorOps /\ last'.ctx = c /\ ImpBuild) =>
                /\ guards'[c] = Append(guards[c], [kind |-> "IrqSave", state |-> Encode(irq_enabled[c])])
                /\ ~irq_enabled'[c]]_vars

\* B was destroyed: A, holding "was enabled", is the only live guard and
\* interrupts are still disabled.
StoredStateWitness ==
    /\ last.op = "drop" /\ last.calls = ReleaseCalls /\ last.st = <<IrqOff>>
    /\ lifo[last.ctx] /\ irq_init[last.ctx]
    /\ guards[last.ctx] = <<[kind |-> "IrqSave", state |-> IrqOn]>>
    /\ ~irq_enabled[last.ctx]

\* C5 as stated: every call of IrqSave::release passes a State that an
\* acquire returned and that was not yet released.
PairedRelease ==
    [][(last'.op = "IrqSave::release" /\ ImpBuild)
          => \E o \in Contexts : Occurs(held[o], last'.st[1])]_vars

\* C5 amended: for guards the pairing holds.  The IrqSave constructor
\* calls acquire once and the new guard stores the State returned;
\* destroying a guard removes that guard alone and, for an IrqSave guard,
\* calls release once, with the State the guard stores.
GuardPairing ==
    [][\A c \in Contexts :
          last'.ctx = c =>
            /\ (last'.op \in IrqSaveConstructorOps /\ ImpBuild) =>
                  /\ Len(guards'[c]) = Len(guards[c]) + 1
                  /\ Front(guards'[c]) = guards[c]
                  /\ last'.calls = ConstructorCalls(last'.op)
                  /\ last'.st = <<guards'[c][Len(guards'[c])].state>>
            /\ (last'.op \in DropOps) =>
                  \E o \in Contexts : \E i \in 1..Len(guards[o]) :
                      /\ Destroyed(o, i)
                      /\ IF IsIrqSave(guards[o][i])
                         THEN last'.calls = ReleaseCalls /\ last'.st = <<guards[o][i].state>>
                         ELSE last'.calls = <<>> /\ last'.st = <<>>]_vars

\* An outer guard that stored "was enabled" was destroyed before an inner
\* one: release ran once, with that State.
GuardPairingWitness ==
    /\ last.op = "drop" /\ last.calls = ReleaseCalls /\ last.st = <<IrqOn>>
    /\ ~lifo[last.ctx] /\ IrqSaveLive(last.ctx)

\* C6 as stated: every destruction removes the guard constructed last on
\* its context.
LifoDestruction ==
    [][\A c \in Contexts :
          Len(guards'[c]) < Len(guards[c]) => guards'[c] = Front(guards[c])]_vars

\* The interrupt status of context o just before its i-th live guard was
\* constructed, where the guards of o were destroyed in reverse order.
PriorFlag(o, i) ==
    IF \E j \in 1..(i - 1) : IsIrqSave(guards[o][j]) THEN FALSE ELSE irq_init[o]

\* C6 amended: any live guard can be destroyed, the code fixes no order.
\* The destruction of an IrqSave guard, whichever guards are live, runs
\* release with the State that guard stores and sets the flag of the
\* context it runs on to that status, and the destruction of a NoOp
\* leaves the flag as it is.  Where the guards of a context are destroyed
\* in reverse order of construction, each destruction returns the flag to
\* its status from just before the construction of the guard destroyed.
DestructionOrder ==
    [][\A c, o \in Contexts :
          (last'.op \in DropOps /\ last'.ctx = c /\ Len(guards'[o]) < Len(guards[o])) =>
            /\ \E i \in 1..Len(guards[o]) :
                  /\ Destroyed(o, i)
                  /\ IF IsIrqSave(guards[o][i])
                     THEN /\ last'.calls = ReleaseCalls
                          /\ last'.st = <<guards[o][i].state>>
                          /\ irq_enabled'[c] = (guards[o][i].state # IrqOff)
                     ELSE irq_enabled' = irq_enabled
            /\ lifo'[o] => irq_enabled'[o] = PriorFlag(o, Len(guards[o]))]_vars

\* The outer guard of two was destroyed on its own context: the inner
\* one, which stored "was disabled", is still live, and interrupts are
\* enabled.
DestructionOrderWitness ==
    /\ last.op = "drop" /\ last.st = <<IrqOn>> /\ ~lifo[last.ctx]
    /\ guards[last.ctx] = <<[kind |-> "IrqSave", state |-> IrqOff]>>
    /\ \A d \in Contexts \ {last.ctx} : lifo[d]
    /\ irq_enabled[last.ctx]

\* C7 as stated: every IrqSave guard that becomes live is eventually
\* released.
EventuallyReleased ==
    \A c \in Contexts : IrqSaveLive(c) ~> ~IrqSaveLive(c)

\* C7 amended: a live IrqSave guard keeps the State it stores until it is
\* destroyed, and it stops being live only by its destruction, which runs
\* release with the State stored and sets the interrupt status of the
\* context it runs on to the stored one.  A guard that is never destroyed
\* is never released.
ReleasedByDestruction ==
    [][\A o \in Contexts :
          /\ (last'.op \notin DropOps) =>
                SubSeq(guards'[o], 1, Len(guards[o])) = guards[o]
          /\ (IrqSaveLive(o) /\ ~IrqSaveLive(o)') =>
                /\ last'.op \in DropOps /\ last'.calls = ReleaseCalls
                /\ \E i \in 1..Len(guards[o]) :
                      /\ Destroyed(o, i) /\ IsIrqSave(guards[o][i])
                      /\ last'.st = <<guards[o][i].state>>
                      /\ irq_enabled'[last'.ctx] = (guards[o][i].state # IrqOff)]_vars

\* The last live guard, an IrqSave that stored "was enabled", was released
\* by its destruction: no context holds a guard and interrupts are enabled.
ReleasedByDestructionWitness ==
    /\ last.op = "drop" /\ last.calls = ReleaseCalls /\ last.st = <<IrqOn>>
    /\ \A c \in Contexts : guards[c] = <<>>
    /\ irq_enabled[last.ctx]

\* C8: no NoOp step (NoOp::new, NoOp::acquire, NoOp::release, the drop of
\* a NoOp; the same calls through the alias IrqSave = NoOp) changes an
\* interrupt-enable flag or the preemption state, or calls a primitive.
NoOpStep ==
    \/ last'.op \in {"NoOp::new", "NoOp::acquire", "NoOp::release"}
    \/ /\ ~ImpBuild
       /\ last'.op \in {"IrqSave::new", "IrqSave::acquire", "IrqSave::release"}
    \/ /\ last'.op \in DropOps
       /\ \E o \in Contexts : \E i \in 1..Len(guards[o]) :
             Destroyed(o, i) /\ ~IsIrqSave(guards[o][i])

NoOpFrame ==
    [][NoOpStep =>
            /\ irq_enabled' = irq_enabled
            /\ preempt_enabled' = preempt_enabled
            /\ last'.calls = <<>>]_vars

\* NoOp::release was called while an IrqSave guard is live: interrupts are
\* still disabled.
NoOpFrameWitness ==
    /\ last.op = "NoOp::release" /\ ImpBuild
    /\ IrqSaveLive(last.ctx) /\ ~last.before /\ ~irq_enabled[last.ctx]

\* No operation has called a platform primitive, every guard is a NoOp
\* and no flag differs from its initial value.
NoEffect ==
    /\ last.calls = <<>>
    /\ irq_enabled = irq_init
    /\ preempt_enabled = [c \in Contexts |-> TRUE]
    /\ \A c \in Contexts :
          /\ held[c] = <<>>
          /\ \A i \in 1..Len(guards[c]) : ~IsIrqSave(guards[c][i])

\* C9 as stated: on a build whose target_os is not "none", IrqSave is
\* NoOp: no operation calls a platform primitive, every guard is a NoOp
\* and no flag differs from its initial value.
HostedNoEffect ==
    ~target_os_none => NoEffect

\* C9 amended: on a build whose target_os is not "none" and that is not a
\* documentation build (cfg(doc)), IrqSave is NoOp: no operation calls a
\* platform primitive, every guard is a NoOp and no flag differs from its
\* initial value.
HostedNoDocNoEffect ==
    (~target_os_none /\ ~cfg_doc) => NoEffect

\* IrqSave::new was called on such a build with interrupts enabled: they
\* are still enabled and the guard is a NoOp.
HostedNoDocNoEffectWitness ==
    /\ ~target_os_none /\ ~cfg_doc
    /\ last.op = "IrqSave::new" /\ last.before /\ irq_enabled[last.ctx]
    /\ Top(last.ctx) = [kind |-> "NoOp"]

\* C10 as stated: with the `preempt` feature, constructing the guard calls
\* the disable-preemption hook before interrupts are disabled, and
\* destroying it restores interrupts before the enable-preemption hook.
BracketOrder ==
    (preempt /\ ImpBuild) =>
        /\ (last.op \in IrqSaveConstructorOps) =>
              CalledBefore(last.calls, "disable_preempt", "local_irq_save_and_disable")
        /\ (last.op \in DropOps /\ last.calls # <<>>) =>
              CalledBefore(last.calls, "local_irq_restore", "enable_preempt")

\* C11: without the `preempt` feature, no construction or destruction of
\* a guard calls a preemption hook or changes the preemption state, and
\* IrqSave only saves and restores the interrupt status.
NoPreemptFrame ==
    [][(~preempt /\ last'.op \in ConstructorOps \cup DropOps) =>
            /\ preempt_enabled' = preempt_enabled
            /\ \A i \in 1..Len(last'.calls) : last'.calls[i] \notin PreemptHooks
            /\ (last'.op \in IrqSaveConstructorOps /\ ImpBuild) =>
                  last'.calls = ConstructorCalls(last'.op)
            /\ (last'.op \in DropOps /\ last'.st # <<>>) => last'.calls = ReleaseCalls]_vars

\* Without the feature an IrqSave guard was constructed where mod imp is
\* compiled: it saved and disabled interrupts and preemption is as before.
NoPreemptFrameWitness ==
    /\ ~preempt /\ ImpBuild
    /\ last.op = "IrqSave::new" /\ last.calls = AcquireCalls
    /\ preempt_enabled[last.ctx] /\ ~irq_enabled[last.ctx]

\* C12: an operation on one context reads and writes that context's
\* interrupt-enable flag only: the flag of every other context is
\* unchanged, a constructor changes the guards of its own context only,
\* the State an IrqSave constructor or acquire returns is the status of
\* its own context, and a context used in LIFO order is back at its
\* initial flag whatever the other contexts did.
ContextIsolation ==
    /\ [][\A c \in Contexts :
            last'.ctx = c =>
              /\ \A d \in Contexts \ {c} :
                    /\ irq_enabled'[d] = irq_enabled[d]
                    /\ (last'.op \notin DropOps) => guards'[d] = guards[d]
              /\ (last'.op \in IrqSaveConstructorOps \cup {"IrqSave::acquire"} /\ ImpBuild) =>
                    last'.st = <<Encode(irq_enabled[c])>>]_vars
    /\ [](\A c \in Contexts :
            (lifo[c] /\ guards[c] = <<>> /\ \E d \in Contexts : ~lifo[d])
            => irq_enabled[c] = irq_init[c])

\* One context finished its critical section and has interrupts enabled
\* again while the other is still inside its own, interrupts disabled.
ContextIsolationWitness ==
    /\ last.op = "drop" /\ last.calls = ReleaseCalls
    /\ guards[last.ctx] = <<>> /\ irq_enabled[last.ctx] /\ lifo[last.ctx]
    /\ \E d \in Contexts \ {last.ctx} :
          IrqSaveLive(d) /\ irq_init[d] /\ ~irq_enabled[d]

\* C13: a guard becomes live only by a constructor, which appends it (an
\* IrqSave after one call of acquire); it stops being live only by its
\* destruction, which removes that guard alone (an IrqSave with one call
\* of release); no other operation changes the live guards.
Lifecycle ==
    [][/\ (guards' # guards) => last'.op \in ConstructorOps \cup DropOps
       /\ \A c \in Contexts :
            (last'.ctx = c /\ last'.op \in ConstructorOps) =>
                /\ guards' = [guards EXCEPT ![c] = Append(@, guards'[c][Len(guards'[c])])]
                /\ IsIrqSave(guards'[c][Len(guards'[c])]) =>
                      CallCount(last'.calls, "IrqSave::acquire") = 1
       /\ (last'.op \in DropOps) =>
            \E o \in Contexts : \E i \in 1..Len(guards[o]) :
                /\ Destroyed(o, i)
                /\ CallCount(last'.calls, "IrqSave::release")
                     = (IF IsIrqSave(guards[o][i]) THEN 1 ELSE 0)]_vars

\* A client called IrqSave::release itself while an IrqSave guard is
\* live: the guard is still live.
LifecycleWitness ==
    /\ last.op = "IrqSave::release" /\ ImpBuild
    /\ held[last.ctx] = <<>>
    /\ Len(guards[last.ctx]) = 1 /\ IsIrqSave(guards[last.ctx][1])

\* C14 as stated: the construction of a guard of either variant calls
\* that variant's acquire and its destruction calls that variant's release.
EveryVariantDelegates ==
    /\ (last.op = "NoOp::new") => Occurs(last.calls, "NoOp::acquire")
    /\ (last.op \in IrqSaveConstructorOps /\ ImpBuild) => Occurs(last.calls, "IrqSave::acquire")
    /\ (last.op \in DropOps) =>
          (Occurs(last.calls, "NoOp::release") \/ Occurs(last.calls, "IrqSave::release"))

\* C14 amended: the IrqSave constructor calls IrqSave::acquire and stores
\* the State returned, and the destruction of an IrqSave calls
\* IrqSave::release with the State stored.  NoOp::new and the destruction
\* of a NoOp call nothing; their effect is the effect of NoOp::acquire and
\* NoOp::release.
VariantDelegation ==
    [][\A c \in Contexts :
          last'.ctx = c =>
            /\ (last'.op \in IrqSaveConstructorOps /\ ImpBuild) =>
                  /\ Occurs(last'.calls, "IrqSave::acquire")
                  /\ guards'[c] = Append(guards[c], [kind |-> "IrqSave", state |-> last'.st[1]])
            /\ (last'.op = "NoOp::new" \/ (last'.op = "IrqSave::new" /\ ~ImpBuild)) =>
                  /\ last'.calls = <<>>
                  /\ guards'[c] = Append(guards[c], [kind |-> "NoOp"])
                  /\ irq_enabled'[c] = NoOp_acquire(irq_enabled[c]).irq
            /\ (last'.op \in DropOps) =>
                  \E o \in Contexts : \E i \in 1..Len(guards[o]) :
                      /\ Destroyed(o, i)
                      /\ IF IsIrqSave(guards[o][i])
                         THEN /\ last'.calls[1] = "IrqSave::release"
                              /\ last'.st = <<guards[o][i].state>>
                         ELSE /\ last'.calls = <<>>
                              /\ irq_enabled'[c] = NoOp_release(irq_enabled[c]).irq]_vars

\* A NoOp guard was constructed inside the critical section of an
\* IrqSave guard without any call.
VariantDelegationWitness ==
    /\ last.op = "NoOp::new" /\ last.calls = <<>>
    /\ Len(guards[last.ctx]) = 2
    /\ IsIrqSave(guards[last.ctx][1]) /\ ~irq_enabled[last.ctx]

\* C15: the destruction of an IrqSave guard sets the interrupt-enable
\* flag of the context it runs on to the status the guard stores,
\* whichever other guards are live; so from interrupts enabled,
\* destroying the outer guard A first enables interrupts while B is live,
\* and destroying B then leaves them disabled.
DropSetsStored ==
    /\ [][\A c \in Contexts :
            (last'.ctx = c /\ last'.op \in DropOps) =>
              \E o \in Contexts : \E i \in 1..Len(guards[o]) :
                  /\ Destroyed(o, i)
                  /\ IsIrqSave(guards[o][i]) =>
                        irq_enabled'[c] = (guards[o][i].state # IrqOff)]_vars
    /\ [](\A c \in Contexts :
            (last.ctx = c /\ last.op \in DropOps /\ last.st = <<IrqOn>>)
            => irq_enabled[c])

\* B, which stored "was disabled", was destroyed last, with interrupts
\* enabled just before: no guard is live and interrupts, enabled at first,
\* are disabled.
DropSetsStoredWitness ==
    /\ last.op = "drop" /\ last.st = <<IrqOff>> /\ last.before
    /\ guards[last.ctx] = <<>> /\ held[last.ctx] = <<>>
    /\ irq_init[last.ctx] /\ ~irq_enabled[last.ctx]

====
